---- MODULE Spec2Model ----
(***************************************************************************)
(* Model of the music-visualizer backend core:                             *)
(*   - render_video.py : interpolate_features, get_beat_pulse,             *)
(*     get_current_section, get_visual_state, ParticleSystem,              *)
(*     hsv_to_rgb, draw_geometric_frame, draw_particle_frame,              *)
(*     draw_psychedelic_frame, make_frame_factory, render_visual_clip      *)
(*   - audio_analysis.py : detect_sections_enhanced, detect_sections as    *)
(*     run by analyze_audio                                                *)
(*   - main.py : the /render-video endpoint                                *)
(*                                                                         *)
(* Numbers.  Times are integers in hundredths of a second.  Band values,   *)
(* beat strengths and pulses are Python floats in the source; they are     *)
(* modelled as binary floating-point numbers with FloatBits significant    *)
(* bits on a grid of 1/One, and every arithmetic operation of the          *)
(* resolver rounds its exact result to the nearest representable value     *)
(* (ties to even), as IEEE-754 arithmetic does.                            *)
(***************************************************************************)
EXTENDS Integers, Sequences, FiniteSets, TLC

VARIABLES
    analysis,   \* the analysis object: frames, beats, lyrics, sections, extended
    t,          \* query time handed to the resolver
    feat,       \* result of interpolate_features
    pulse,      \* result of get_beat_pulse
    state,      \* result of get_visual_state, a VisualStateAtTime
    particle_system, \* the ParticleSystem of a render job: width, height, count, particles
    steps,      \* number of ParticleSystem.update calls made so far
    sections_enhanced, \* outcome of detect_sections_enhanced: raised, sections
    pc,         \* "input" before the call under study, "done" after it
    jobs,       \* per render job: the closure of make_frame_factory and its frames
    render,     \* the /render-video call: its request, its w and h, its position
    sections_basic, \* outcome of detect_sections: raised, sections
    frame       \* what a draw function has put on its image

vars == <<analysis, t, feat, pulse, state, particle_system, steps,
         sections_enhanced, pc, jobs, render, sections_basic, frame>>

----------------------------------------------------------------------------
(* Bounds of the model *)

FloatBits == 3      \* significant bits of the modelled floating-point format
MaxFrames == 3      \* longest frame list of the interpolation runs
MaxBeats == 2       \* longest beat list of the beat-pulse runs
MaxVisual == 1      \* longest frame list and beat list of the visual-state runs
MaxSpans == 2       \* longest section list and lyric list of the visual-state runs
MaxSteps == 3       \* update steps followed per run
MaxSegFrames == 3   \* longest enumerated frame list of the segmenter runs
MaxSegLyrics == 1   \* longest lyric list of the segmenter runs
MaxJobFrames == 2   \* frames requested per render job

----------------------------------------------------------------------------
(* Floating-point arithmetic *)

RECURSIVE Pow2(_)
Pow2(k) == IF k = 0 THEN 1 ELSE 2 * Pow2(k - 1)

\* 1.0 on the value grid; the grid step 1/One is the smallest positive value
One == Pow2(FloatBits + 1)

Abs(x) == IF x < 0 THEN -x ELSE x
Max(x, y) == IF x >= y THEN x ELSE y
Min(x, y) == IF x <= y THEN x ELSE y

\* round-half-even of the non-negative rational n/d to an integer
RoundHalfEven(n, d) ==
    LET f == n \div d
        r == n % d
    IN  IF 2 * r < d THEN f
        ELSE IF 2 * r > d THEN f + 1
        ELSE IF f % 2 = 0 THEN f ELSE f + 1

\* spacing of the representable values around the non-negative rational a/d
Quantum(a, d) ==
    LET ks == {k \in 0..(2 * FloatBits + 4) : a >= d * Pow2(k) * Pow2(FloatBits - 1)}
    IN  IF ks = {} THEN 1 ELSE Pow2(CHOOSE k \in ks : \A j \in ks : j <= k)

\* the representable value nearest to num/den (den > 0), in grid units
RoundRat(num, den) ==
    LET a == Abs(num)
        q == Quantum(a, den)
        m == q * RoundHalfEven(a, den * q)
    IN  IF num < 0 THEN -m ELSE m

FAdd(x, y) == RoundRat(x + y, 1)
FSub(x, y) == RoundRat(x - y, 1)
FMul(x, y) == RoundRat(x * y, One)
\* quotient of two quantities given in the same unit, as a value in grid units
FDiv(x, y) == RoundRat(x * One, y)

----------------------------------------------------------------------------
(* interpolate_features *)

ZeroBands == [bass |-> 0, mid |-> 0, treble |-> 0, energy |-> 0, raised |-> FALSE]

Bands(f) == [bass |-> f.bass, mid |-> f.mid, treble |-> f.treble,
             energy |-> f.energy, raised |-> FALSE]

Alpha(f0, f1, tq) ==
    IF f1.time > f0.time THEN FDiv(tq - f0.time, f1.time - f0.time) ELSE 0

Lerp(v0, v1, alpha) == FAdd(v0, FMul(alpha, FSub(v1, v0)))

Interpolated(f0, f1, tq) ==
    LET alpha == Alpha(f0, f1, tq)
    IN  [bass |-> Lerp(f0.bass, f1.bass, alpha),
         mid |-> Lerp(f0.mid, f1.mid, alpha),
         treble |-> Lerp(f0.treble, f1.treble, alpha),
         energy |-> Lerp(f0.energy, f1.energy, alpha),
         raised |-> FALSE]

\* a search that accepts only a t strictly inside the bracket
BracketsStrict(frames, tq) ==
    {i \in 1..(Len(frames) - 1) : frames[i].time < tq /\ tq < frames[i + 1].time}

\* the indices i the search loop accepts: frames[i].time <= t <= frames[i+1].time
Brackets(frames, tq) ==
    {i \in 1..(Len(frames) - 1) : frames[i].time <= tq /\ tq <= frames[i + 1].time}

\* no guard for an empty list: frames[0] raises IndexError
EmptyFramesRaises(frames) == [ZeroBands EXCEPT !.raised = TRUE]

EmptyFramesResult(frames) == ZeroBands

\* a clamp that misses t = last sample time
ClampLastStrict(frames, tq) == tq > frames[Len(frames)].time

ClampLast(frames, tq) == tq >= frames[Len(frames)].time

InterpolateFeatures(an, tq) ==
    LET frames == an.frames
    IN  IF frames = <<>> THEN EmptyFramesResult(frames)
        ELSE IF tq <= frames[1].time THEN Bands(frames[1])
        ELSE IF ClampLast(frames, tq) THEN Bands(frames[Len(frames)])
        ELSE LET br == Brackets(frames, tq)
             IN  IF br = {} THEN ZeroBands
                 ELSE LET i == CHOOSE k \in br : \A j \in br : k <= j
                      IN  Interpolated(frames[i], frames[i + 1], tq)

----------------------------------------------------------------------------
(* get_beat_pulse *)

\* window = 0.06 s
BeatWindow == 6

\* an envelope that grows with the distance from the beat
BeatStrengthRising(beat, dt, window) ==
    FMul(beat.strength, FDiv(dt, window))

BeatStrength(beat, dt, window) ==
    FMul(beat.strength, FSub(One, FDiv(dt, window)))

\* beats that stack additively
AccumulateSum(p, strength) == FAdd(p, strength)

Accumulate(p, strength) == Max(p, strength)

RECURSIVE PulseFrom(_, _, _, _, _)
PulseFrom(beats, tq, window, i, p) ==
    IF i > Len(beats) THEN p
    ELSE LET dt == Abs(tq - beats[i].time)
             p2 == IF dt < window
                   THEN Accumulate(p, BeatStrength(beats[i], dt, window))
                   ELSE p
         IN  PulseFrom(beats, tq, window, i + 1, p2)

GetBeatPulse(an, tq, window) == PulseFrom(an.beats, tq, window, 1, 0)

----------------------------------------------------------------------------
(* get_current_section *)

\* the sections whose closed interval holds tq
Containing(spans, tq) ==
    {i \in 1..Len(spans) : spans[i].start <= tq /\ tq <= spans[i].end}

First(S) == CHOOSE k \in S : \A j \in S : k <= j

\* a scan that keeps the last match instead of returning at the first
GetCurrentSectionLast(an, tq) ==
    LET hit == Containing(an.sections, tq)
    IN  IF hit = {} THEN "intro"
        ELSE an.sections[CHOOSE k \in hit : \A j \in hit : j <= k].type

GetCurrentSection(an, tq) ==
    LET hit == Containing(an.sections, tq)
    IN  IF hit = {} THEN "intro" ELSE an.sections[First(hit)].type

----------------------------------------------------------------------------
(* get_visual_state *)

\* the dataclass with its field defaults
VisualStateAtTime ==
    [time |-> 0, bass |-> 0, mid |-> 0, treble |-> 0, energy |-> 0,
     beat_pulse |-> 0, current_section |-> "intro", lyric_sentiment |-> 0,
     lyric_energy |-> 0, raised |-> FALSE]

\* a lyric_energy that defaults to 0.0 like the sentiment
LyricEnergyZero(f) == 0

\* lyric_energy = feat["energy"]
LyricEnergyDefault(f) == f.energy

GetVisualState(an, tq) ==
    LET f == InterpolateFeatures(an, tq)
        p == GetBeatPulse(an, tq, BeatWindow)
        section == GetCurrentSection(an, tq)
        hit == IF an.extended THEN Containing(an.lyrics, tq) ELSE {}
    IN  [time |-> tq,
         bass |-> f.bass,
         mid |-> f.mid,
         treble |-> f.treble,
         energy |-> f.energy,
         beat_pulse |-> p,
         current_section |-> section,
         lyric_sentiment |-> IF hit = {} THEN 0 ELSE an.lyrics[First(hit)].sentiment,
         lyric_energy |-> IF hit = {} THEN LyricEnergyDefault(f) ELSE an.lyrics[First(hit)].intensity,
         raised |-> f.raised]

----------------------------------------------------------------------------
(* detect_sections_enhanced *)
(* Energies are integers in units of 1/EnergyOne.  Smoothed energies are    *)
(* kept as the sums of their windows (ten times the smoothed value); means, *)
(* the standard deviation and the thresholds are compared exactly, by       *)
(* cross-multiplication.  A mean of an empty slice is NaN, which every      *)
(* comparison answers with False.                                           *)

EnergyOne == 50             \* energy 1.0

SmoothKernel == 10          \* np.ones(10) / 10
WindowCount == 20           \* len(energy_smooth) // 20
MinSectionLength == 200     \* 2.0 s
RepairAfter == 100          \* sections[0].start > 1.0

NotSegmented == [raised |-> FALSE, sections |-> <<>>]

RECURSIVE SumRange(_, _, _)
\* f[lo] + ... + f[hi]
SumRange(f, lo, hi) ==
    IF lo > hi THEN 0
    ELSE IF lo = hi THEN f[lo]
    ELSE LET mid == (lo + hi) \div 2
         IN  SumRange(f, lo, mid) + SumRange(f, mid + 1, hi)

\* an edge kernel [1, 0, ..., 0, -1] in the place of np.ones(10)
EnergySmoothEdge(ev) ==
    LET n == Len(ev)
        short == Min(n, SmoothKernel)
        first == short - 1 - (short \div 2)
        At(j) == IF 0 <= j /\ j < n THEN ev[j + 1] ELSE 0
    IN  [i \in 1..Max(n, SmoothKernel) |->
            At(i - 1 + first) - At(i - 1 + first - (SmoothKernel - 1))]

\* np.convolve(energy_values, np.ones(10)/10, mode='same'), times 10: the
\* middle max(n, 10) entries of the full convolution
EnergySmooth(ev) ==
    LET n == Len(ev)
        short == Min(n, SmoothKernel)
        first == short - 1 - (short \div 2)
        Full(j) == SumRange(ev, Max(0, j - (SmoothKernel - 1)) + 1, Min(n - 1, j) + 1)
    IN  [i \in 1..Max(n, SmoothKernel) |-> Full(i - 1 + first)]

\* np.searchsorted(times, v): the number of entries below v
SearchSorted(times, v) == Cardinality({i \in 1..Len(times) : times[i] < v})

\* a density that starts from np.ones instead of np.zeros
LyricDensityOnes(times, lyrics) == [i \in 1..Len(times) |-> 1]

\* lyric_density, one counter per sample
LyricDensity(times, lyrics) ==
    [i \in 1..Len(times) |->
        Cardinality({j \in 1..Len(lyrics) :
            /\ SearchSorted(times, lyrics[j].start) <= i - 1
            /\ i - 1 < SearchSorted(times, lyrics[j].end)})]

\* np.mean(xs[lo:hi]) as [sum, cnt]; cnt = 0 is NaN
MeanSlice(xs, lo, hi) ==
    LET a == Min(Max(lo, 0), Len(xs))
        b == Min(Max(hi, 0), Len(xs))
    IN  IF a >= b THEN [sum |-> 0, cnt |-> 0]
        ELSE [sum |-> SumRange(xs, a + 1, b), cnt |-> b - a]

\* mean > num/den, False for NaN
MeanAbove(mean, num, den) == mean.cnt > 0 /\ den * mean.sum > num * mean.cnt

\* the largest r in lo..hi with r * r <= v
RECURSIVE IsqrtBetween(_, _, _)
IsqrtBetween(v, lo, hi) ==
    IF lo >= hi THEN lo
    ELSE LET mid == (lo + hi + 1) \div 2
         IN  IF mid * mid <= v THEN IsqrtBetween(v, mid, hi)
             ELSE IsqrtBetween(v, lo, mid - 1)

\* everything the window loop reads
Prepare(frames, lyrics) ==
    LET times == [i \in 1..Len(frames) |-> frames[i].time]
        smooth == EnergySmooth([i \in 1..Len(frames) |-> frames[i].energy])
        m == Len(smooth)
        total == SumRange(smooth, 1, m)
        spread == m * SumRange([i \in 1..m |-> smooth[i] * smooth[i]], 1, m) - total * total
    IN  [times |-> times,
         n |-> Len(times),
         duration |-> times[Len(times)],
         smooth |-> smooth,
         m |-> m,
         total |-> total,
         \* m * sum(smooth^2) - total^2: (10 * m * np.std(energy_smooth))^2
         spread |-> spread,
         \* the integer part of 10 * m * np.std(energy_smooth); 46340^2 is the
         \* largest square below 2^31
         root |-> IsqrtBetween(spread, 0, 46340),
         density |-> LyricDensity(times, lyrics),
         lyrics |-> lyrics,
         window_size |-> Max(1, m \div WindowCount)]

\* a > k * sqrt(v) for a, k, v >= 0, decided exactly: with r the integer
\* square root of v and a = k * r + e, a^2 > k^2 * v is
\* 2 * k * r * e + e^2 > k^2 * (v - r^2)
ExceedsRoot(a, k, v, r) ==
    LET e == a - k * r
    IN  IF e <= 0 THEN FALSE
        ELSE IF e >= k THEN TRUE
        ELSE 2 * k * r * e + e * e > k * k * (v - r * r)

\* window_energy > high_threshold * 1.2, with high = mean + 0.5 * std
AboveHighTimes12(c, w) ==
    LET d == 5 * c.m * w.sum - 6 * w.cnt * c.total
    IN  d > 0 /\ ExceedsRoot(d, 3 * w.cnt, c.spread, c.root)

\* window_energy > high_threshold
AboveHigh(c, w) ==
    LET d == c.m * w.sum - w.cnt * c.total
    IN  d > 0 /\ ExceedsRoot(2 * d, w.cnt, c.spread, c.root)

\* window_energy < low_threshold, with low = mean - 0.5 * std
BelowLow(c, w) ==
    LET d == w.cnt * c.total - c.m * w.sum
    IN  d > 0 /\ ExceedsRoot(2 * d, w.cnt, c.spread, c.root)

\* np.mean(energy_smooth[i:min(i+window_size, len(energy_smooth))])
WindowEnergy(c, i) == MeanSlice(c.smooth, i, Min(i + c.window_size, c.m))

\* the label of the window starting at index i (0-based)
Classify(c, i) ==
    LET w == WindowEnergy(c, i)
        dens == MeanSlice(c.density, i, Min(i + c.window_size, c.n))
    IN  IF AboveHighTimes12(c, w) THEN "drop"
        ELSE IF AboveHigh(c, w)
             THEN IF MeanAbove(dens, 5, 10) THEN "chorus" ELSE "drop"
        ELSE IF BelowLow(c, w)
             THEN IF MeanAbove(dens, 3, 10) THEN "verse"
                  ELSE IF i < c.m \div 4 THEN "intro" ELSE "bridge"
        ELSE IF MeanAbove(dens, 4, 10) THEN "verse" ELSE "bridge"

\* Counter(emotions).most_common(1)[0][0]: the most frequent label, the one
\* met first among equals; None for no labels
MostCommon(emotions) ==
    IF emotions = <<>> THEN "none"
    ELSE LET Count(e) == Cardinality({i \in 1..Len(emotions) : emotions[i] = e})
             best == {i \in 1..Len(emotions) :
                        \A j \in 1..Len(emotions) : Count(emotions[j]) <= Count(emotions[i])}
         IN  emotions[CHOOSE i \in best : \A j \in best : i <= j]

\* [l.emotion for l in section_lyrics]
EmotionsOf(section_lyrics) == [i \in 1..Len(section_lyrics) |-> section_lyrics[i].emotion]

\* an energy as a fraction of 1.0; den = 0 is NaN
EnergyOf(mean) == [num |-> mean.sum, den |-> SmoothKernel * mean.cnt * EnergyOne]

SectionInfo(start, end, type, energy, emotion) ==
    [start |-> start, end |-> end, type |-> type, energy |-> energy, emotion |-> emotion]

\* appends the section that ends at tq and opens the next one at next_start
CloseSectionAt(c, st, tq, new_section, next_start) ==
    LET section_energy ==
            MeanSlice(c.smooth, SearchSorted(c.times, st.section_start),
                      SearchSorted(c.times, tq))
        section_emotion ==
            MostCommon(EmotionsOf(SelectSeq(c.lyrics,
                LAMBDA l : st.section_start <= l.start /\ l.start < tq)))
    IN  [sections |-> Append(st.sections,
                        SectionInfo(st.section_start, tq, st.current_section,
                                    EnergyOf(section_energy), section_emotion)),
         current_section |-> new_section,
         section_start |-> next_start]

\* a boundary that forgets to move section_start
CloseSectionKeepStart(c, st, tq, new_section) ==
    CloseSectionAt(c, st, tq, new_section, st.section_start)

\* a boundary after which the running label stays what it was
CloseSectionKeepLabel(c, st, tq, new_section) ==
    CloseSectionAt(c, st, tq, st.current_section, tq)

\* the body of "if section_start < t - 2.0"
CloseSection(c, st, tq, new_section) ==
    CloseSectionAt(c, st, tq, new_section, tq)

\* t = times[i] if i < len(times) else duration
WindowTime(c, i) == IF i < c.n THEN c.times[i + 1] ELSE c.duration

\* section_start < t - 2.0
Elapsed(st, tq) == st.section_start < tq - MinSectionLength

\* a test that lets a window with the running label open a section too
LabelChangesAlways(st, new_section) == TRUE

\* new_section and new_section != current_section
LabelChanges(st, new_section) == new_section # st.current_section

\* one pass of the window loop, for the window starting at index i
WindowStep(c, i, st) ==
    LET tq == WindowTime(c, i)
        new_section == Classify(c, i)
    IN  IF LabelChanges(st, new_section) /\ Elapsed(st, tq)
        THEN CloseSection(c, st, tq, new_section)
        ELSE st

\* the number of passes of "for i in range(0, len(energy_smooth), window_size)"
WindowPasses(c) == (c.m + c.window_size - 1) \div c.window_size

\* passes lo..hi of the window loop, entered in the loop state st: the window
\* index and the loop state before each pass
RECURSIVE WindowTraceRange(_, _, _, _)
WindowTraceRange(c, lo, hi, st) ==
    IF lo > hi THEN <<>>
    ELSE IF lo = hi THEN <<[i |-> (lo - 1) * c.window_size, st |-> st]>>
    ELSE LET mid == (lo + hi) \div 2
             left == WindowTraceRange(c, lo, mid, st)
             last == left[Len(left)]
         IN  left \o WindowTraceRange(c, mid + 1, hi, WindowStep(c, last.i, last.st))

\* the window loop replayed from index i on
WindowTrace(c, i, st) ==
    WindowTraceRange(c, i \div c.window_size + 1, WindowPasses(c), st)

\* the loop state after the last pass
WindowLoop(c, i, st) ==
    LET tr == WindowTrace(c, i, st)
    IN  IF tr = <<>> THEN st ELSE WindowStep(c, tr[Len(tr)].i, tr[Len(tr)].st)

\* "Add final section"
FinalSection(c, st) ==
    IF st.section_start < c.duration
    THEN Append(st.sections,
            SectionInfo(st.section_start, c.duration, st.current_section,
                EnergyOf(MeanSlice(c.smooth, SearchSorted(c.times, st.section_start), c.m)),
                MostCommon(EmotionsOf(SelectSeq(c.lyrics,
                    LAMBDA l : l.start >= st.section_start)))))
    ELSE st.sections

\* "Ensure we have at least an intro"
EnsureIntro(c, sections) ==
    IF sections = <<>> \/ sections[1].start > RepairAfter
    THEN <<SectionInfo(0, IF sections # <<>> THEN sections[1].start ELSE c.duration,
                       "intro", [num |-> 3, den |-> 10], "none")>> \o sections
    ELSE sections

\* no guard for an empty list: np.convolve raises ValueError on an empty array
NoFramesRaises(frames) == [raised |-> TRUE, sections |-> <<>>]

\* "if not frames: return []"
NoFrames(frames) == [raised |-> FALSE, sections |-> <<>>]

\* a running label that starts as the label of the first window's kind
LoopStartBridge == [sections |-> <<>>, current_section |-> "bridge", section_start |-> 0]

\* sections = [], current_section = "intro", section_start = 0.0
LoopStart == [sections |-> <<>>, current_section |-> "intro", section_start |-> 0]

DetectSectionsEnhanced(frames, beats, lyrics) ==
    IF frames = <<>> THEN NoFrames(frames)
    ELSE LET c == Prepare(frames, lyrics)
             st == WindowLoop(c, 0, LoopStart)
         IN  [raised |-> FALSE, sections |-> EnsureIntro(c, FinalSection(c, st))]

----------------------------------------------------------------------------
(* detect_sections, the basic segmenter run by analyze_audio *)

BasicWindowSeconds == 20    \* int(duration / 20)

\* window_size = int(duration / 20), for a duration in hundredths of a second
BasicWindowSize(duration) == duration \div (BasicWindowSeconds * 100)

Section(start, end, type) == [start |-> start, end |-> end, type |-> type]

\* energy_smooth, its mean and spread, times, duration and window_size
PrepareBasic(duration, frames) ==
    [Prepare(frames, <<>>) EXCEPT !.duration = duration,
                                  !.window_size = BasicWindowSize(duration)]

\* new_section of the window starting at index i; "none" is None
ClassifyBasic(c, i, current_section) ==
    LET w == WindowEnergy(c, i)
    IN  IF AboveHigh(c, w)
        THEN IF current_section # "chorus" /\ current_section # "drop"
             THEN "chorus" ELSE "none"
        ELSE IF BelowLow(c, w)
             THEN IF current_section # "verse" /\ current_section # "intro"
                  THEN "verse" ELSE "none"
        ELSE IF AboveHighTimes12(c, w) THEN "drop"
        ELSE "none"

\* one pass of the window loop of detect_sections
BasicStep(c, i, st) ==
    LET tq == WindowTime(c, i)
        new_section == ClassifyBasic(c, i, st.current_section)
    IN  IF new_section # "none" /\ new_section # st.current_section /\ Elapsed(st, tq)
        THEN [sections |-> Append(st.sections,
                              Section(st.section_start, tq, st.current_section)),
              current_section |-> new_section,
              section_start |-> tq]
        ELSE st

\* passes lo..hi of the window loop of detect_sections, entered in the loop
\* state st: the window index and the loop state before each pass
RECURSIVE BasicTraceRange(_, _, _, _)
BasicTraceRange(c, lo, hi, st) ==
    IF lo > hi THEN <<>>
    ELSE IF lo = hi THEN <<[i |-> (lo - 1) * c.window_size, st |-> st]>>
    ELSE LET mid == (lo + hi) \div 2
             left == BasicTraceRange(c, lo, mid, st)
             last == left[Len(left)]
         IN  left \o BasicTraceRange(c, mid + 1, hi, BasicStep(c, last.i, last.st))

\* the loop state after the last pass
BasicLoop(c, i, st) ==
    LET tr == BasicTraceRange(c, i \div c.window_size + 1, WindowPasses(c), st)
    IN  IF tr = <<>> THEN st ELSE BasicStep(c, tr[Len(tr)].i, tr[Len(tr)].st)

\* "Add final section" of detect_sections
BasicFinal(c, st) ==
    IF st.section_start < c.duration
    THEN Append(st.sections, Section(st.section_start, c.duration, st.current_section))
    ELSE st.sections

\* "Ensure we have at least an intro" of detect_sections
BasicEnsureIntro(c, sections) ==
    IF sections = <<>> \/ sections[1].start > RepairAfter
    THEN <<Section(0, IF sections # <<>> THEN sections[1].start ELSE c.duration,
                   "intro")>> \o sections
    ELSE sections

\* detect_sections(y, sr, duration, energy, times), energy and times being
\* the columns of frames.  np.convolve raises ValueError on an empty array,
\* and range(0, len(energy_smooth), 0) raises ValueError: range() arg 3 must
\* not be zero.
DetectSectionsBasic(duration, frames) ==
    IF frames = <<>> THEN [raised |-> TRUE, sections |-> <<>>]
    ELSE LET c == PrepareBasic(duration, frames)
         IN  IF c.window_size = 0 THEN [raised |-> TRUE, sections |-> <<>>]
             ELSE [raised |-> FALSE,
                   sections |-> BasicEnsureIntro(c, BasicFinal(c, BasicLoop(c, 0, LoopStart)))]

----------------------------------------------------------------------------
(* The draw functions *)

\* before anything is drawn
NoFrame == [strategy |-> "none", layers |-> <<>>, hsv |-> {}]

----------------------------------------------------------------------------
(* ParticleSystem *)
(* Positions are whole pixels and velocities whole pixels per 1/60 s.  Life *)
(* is counted in thousandths.  np.random is a nondeterministic choice.      *)

FPS == 30
LifeOne == 1000         \* life 1.0
LifeDecrement == 2      \* life -= 0.002

\* particle_system = None in make_frame_factory
NoParticleSystem == [width |-> 0, height |-> 0, count |-> 0, particles |-> <<>>]

Velocities == {-1, 0, 1}

\* np.random.random() * size lies in [0, size): the positions followed are
\* the first three, the middle and the last
RandomPosition(size) == {p \in {0, 1, 2, size \div 2, size - 1} : 0 <= p /\ p < size}

\* the lives init_particles is followed from, out of [0, 1)
InitLives == {2, 3, 999}

\* the records init_particles can append
InitialParticles(width, height) ==
    { [x |-> px, y |-> py, vx |-> v[1], vy |-> v[2], life |-> l] :
        px \in RandomPosition(width), py \in {0}, v \in {<<-1, 1>>, <<1, 0>>},
        l \in InitLives }

\* all lists whose i-th element is drawn from choice[i]
RECURSIVE Lists(_, _)
Lists(choice, n) ==
    IF n = 0 THEN {<<>>}
    ELSE {Append(l, c) : l \in Lists(choice, n - 1), c \in choice[n]}

ParticleSystemInit(width, height, count) ==
    { [width |-> width, height |-> height, count |-> count, particles |-> ps] :
        ps \in Lists([i \in 1..count |-> InitialParticles(width, height)], count) }

\* One velocity component after the bass force, the treble jitter, the mid
\* swirl and the damping.  With bass = mid = treble = 0 only the 2% damping
\* acts, which keeps the grid value; otherwise the change (force <= 0.08,
\* jitter < 0.25 drawn from np.random, swirl <= 0.03 rad) is below one grid
\* step in either direction.
Kicked(v, vs) ==
    IF vs.bass = 0 /\ vs.mid = 0 /\ vs.treble = 0 THEN {v}
    ELSE {w \in Velocities : Abs(w - v) <= 1}

\* if c < 0: c = size; if c > size: c = 0
Wrap(c, size) == IF c < 0 THEN size ELSE IF c > size THEN 0 ELSE c

\* a respawn test that lets a life of exactly 0 pass
ExpiredStrict(life) == life < 0

\* if p['life'] <= 0
Expired(life) == life <= 0

\* the outcomes of the loop body for one particle; dt = 1 / FPS
UpdateParticle(p, vs, width, height) ==
    LET moved ==
            { [x |-> Wrap(p.x + (v[1] * 60) \div FPS, width),
               y |-> Wrap(p.y + (v[2] * 60) \div FPS, height),
               vx |-> v[1], vy |-> v[2], life |-> p.life - LifeDecrement] :
                v \in Kicked(p.vx, vs) \X Kicked(p.vy, vs) }
        alive == {q \in moved : ~Expired(q.life)}
        reborn ==
            { [q EXCEPT !.life = LifeOne, !.x = px, !.y = py] :
                q \in moved \ alive, px \in RandomPosition(width),
                py \in RandomPosition(height) }
    IN  alive \cup reborn

\* an update that drops a dead particle instead of respawning it
UpdateCulling(ps, vs) ==
    LET live == SelectSeq(ps.particles, LAMBDA q : q.life > LifeDecrement)
    IN  { [ps EXCEPT !.particles = l] :
            l \in Lists([i \in 1..Len(live) |->
                            UpdateParticle(live[i], vs, ps.width, ps.height)],
                        Len(live)) }

\* ParticleSystem.update: the particle systems it can leave behind
Update(ps, vs) ==
    { [ps EXCEPT !.particles = l] :
        l \in Lists([i \in 1..Len(ps.particles) |->
                        UpdateParticle(ps.particles[i], vs, ps.width, ps.height)],
                    Len(ps.particles)) }

----------------------------------------------------------------------------
(* hsv_to_rgb and the three draw functions *)
(* Saturation, brightness, sines and the VisualState fields read by the     *)
(* draw functions are counted in thousandths, angles in milliradians, hues  *)
(* in thousandths of a degree until hsv_to_rgb takes them, which keeps the  *)
(* whole degrees.  The arithmetic is exact on these grids, where the source *)
(* rounds to the nearest double.                                            *)

Milli == 1000           \* 1.0 in thousandths
FullTurn == 360         \* h % 360
Sextant == 60           \* h / 60
ChannelMax == 255       \* int((r + m) * 255)

\* a band value, pulse or sentiment on the grid of 1/One, in thousandths
InMilli(x) == (x * Milli) \div One

\* int(n / d): truncation towards zero
Trunc(n, d) == IF n >= 0 THEN n \div d ELSE -((-n) \div d)

\* math.sin of an angle in milliradians, in thousandths: the angle is reduced
\* to -pi/2..pi/2 and the series x - x^3/3! + x^5/5! - x^7/7! is summed
TwoPiMilli == 6283
PiMilli == 3142
HalfPiMilli == 1571

SinSeries(x) ==
    LET x2 == (x * x) \div Milli
        t3 == (x * x2) \div 6000
        t5 == (t3 * x2) \div 20000
        t7 == (t5 * x2) \div 42000
    IN  x - t3 + t5 - t7

Sin(a) ==
    LET y == a % TwoPiMilli
        z == IF y > PiMilli + HalfPiMilli THEN y - TwoPiMilli
             ELSE IF y > HalfPiMilli THEN PiMilli - y
             ELSE y
    IN  IF z >= 0 THEN SinSeries(z) ELSE -SinSeries(-z)

\* hsv_to_rgb(h, s, v) for h in thousandths of a degree and s, v in
\* thousandths.  c and m are kept in millionths; x = c * k / 60 with
\* k = 60 * (1 - abs((h / 60) % 2 - 1))
HsvToRgb(h, s, v) ==
    LET hd == (h % (FullTurn * Milli)) \div Milli
        c == v * s
        k == Sextant - Abs((hd % (2 * Sextant)) - Sextant)
        m == v * Milli - c
        hi == Trunc((c + m) * ChannelMax, Milli * Milli)
        lo == Trunc(m * ChannelMax, Milli * Milli)
        \* (c * k / 60 + m) * 255 / 10^6, with 255 / (60 * 10^6) = 17 / (4 * 10^6)
        mi == Trunc((c * k + Sextant * m) * 17, 4 * Milli * Milli)
    IN  IF hd < 60 THEN <<hi, mi, lo>>
        ELSE IF hd < 120 THEN <<mi, hi, lo>>
        ELSE IF hd < 180 THEN <<lo, hi, mi>>
        ELSE IF hd < 240 THEN <<lo, mi, hi>>
        ELSE IF hd < 300 THEN <<mi, lo, hi>>
        ELSE <<hi, lo, mi>>

\* one call of hsv_to_rgb: its saturation and brightness arguments, the hue
\* in whole degrees and the colour returned
HsvCall(h, s, v) ==
    [h |-> (h % (FullTurn * Milli)) \div Milli, s |-> s, v |-> v, rgb |-> HsvToRgb(h, s, v)]

\* the VisualState fields a draw function reads, in thousandths
DrawState(vs) ==
    [bass |-> InMilli(vs.bass), mid |-> InMilli(vs.mid), treble |-> InMilli(vs.treble),
     energy |-> InMilli(vs.energy), beat_pulse |-> InMilli(vs.beat_pulse),
     lyric_sentiment |-> InMilli(vs.lyric_sentiment),
     lyric_energy |-> InMilli(vs.lyric_energy),
     current_section |-> vs.current_section]

\* a * b for a in thousandths: 0.1 * lyric_energy is Scaled(100, lyric_energy)
Scaled(a, b) == (a * b) \div Milli

\* morph = math.sin(t * 0.5) * 0.5 + 0.5, in two-thousandths
Morph(tq) == Sin(5 * tq) + Milli

\* morph < 0.3
MorphLow(tq) == 10 * Morph(tq) < 3 * 2 * Milli

\* sides = int(3 + 6 * (0.5 + morph * 0.5))
Sides(tq) == Trunc(3 * 2 * Milli + 6 * Milli + 3 * Morph(tq), 2 * Milli)

NUM_LAYERS == 6
BAR_COUNT == 64

KnownShapeTypes == {"intro", "verse", "chorus", "drop", "bridge"}

\* shape_type = state.current_section, "intro" for a label outside the list
ShapeType(section) == IF section \in KnownShapeTypes THEN section ELSE "intro"

\* what the if/elif chain of a layer draws: draw.ellipse, draw.polygon with
\* sides + 1 points, one draw.polygon per segment of the mandala, or nothing
LayerShape(shape_type, layer, tq) ==
    IF shape_type = "intro" \/ (shape_type = "verse" /\ MorphLow(tq))
    THEN [shape |-> "circle", sides |-> 0, segments |-> 0]
    ELSE IF shape_type = "verse" \/ shape_type = "chorus"
    THEN [shape |-> "polygon", sides |-> Sides(tq), segments |-> 0]
    ELSE IF shape_type = "drop"
    THEN [shape |-> "mandala", sides |-> 0, segments |-> 8 + layer * 2]
    ELSE [shape |-> "none", sides |-> 0, segments |-> 0]

\* the colour of a layer
LayerColor(ds, layer, tq) ==
    LET base_hue == 30 * Milli + ds.lyric_sentiment * 60 + layer * 15 * Milli
        hue == base_hue + ds.treble * 50 + Sin(4 * tq + layer * Milli) * 15
        saturation == 900 + Scaled(100, ds.lyric_energy)
        lightness == 650 + Scaled(300, ds.bass)
    IN  HsvCall(hue, saturation, lightness)

\* the colour of frequency bar i
BarColor(ds, i) ==
    LET hue == 20 * Milli + (i * 60 * Milli) \div BAR_COUNT + ds.treble * 40
        saturation == 850 + Scaled(150, ds.lyric_energy)
        lightness == 600 + Scaled(350, ds.energy)
    IN  HsvCall(hue, saturation, lightness)

\* draw_geometric_frame: the shape of each layer and every hsv_to_rgb call
DrawGeometricFrame(vs, width, height, tq) ==
    LET ds == DrawState(vs)
        shape_type == ShapeType(ds.current_section)
    IN  [strategy |-> "geometric",
         layers |-> [l \in 1..NUM_LAYERS |-> LayerShape(shape_type, l - 1, tq)],
         hsv |-> {LayerColor(ds, l, tq) : l \in 0..(NUM_LAYERS - 1)}
                 \cup {BarColor(ds, i) : i \in 0..(BAR_COUNT - 1)}]

\* theme_hue of draw_particle_frame
ThemeHue(ds) ==
    LET section == ds.current_section
    IN  IF section = "intro" THEN 200 * Milli + ds.lyric_sentiment * 40
        ELSE IF section = "verse" THEN 30 * Milli + ds.lyric_sentiment * 60
        ELSE IF section = "chorus" THEN 300 * Milli + ds.lyric_sentiment * 40
        ELSE IF section = "drop" THEN ds.energy * 60
        ELSE IF section = "bridge" THEN 180 * Milli + ds.lyric_sentiment * 30
        ELSE 240 * Milli + ds.energy * 60

\* the colour of every particle: it does not depend on the particle
ParticleColor(ds, tq) ==
    LET energy_variation == (ds.energy * 20 + tq * 50) % (FullTurn * Milli)
        hue == ThemeHue(ds) + energy_variation \div 5
        saturation == 850 + Scaled(150, ds.lyric_energy)
        lightness == 650 + Scaled(250, ds.energy) + Scaled(200, ds.beat_pulse)
    IN  HsvCall(hue, saturation, lightness)

\* draw_particle_frame after particle_system.update: the particles drawn
DrawParticleFrame(vs, particles, tq) ==
    [strategy |-> "particles",
     layers |-> <<>>,
     hsv |-> {ParticleColor(DrawState(vs), tq) : i \in 1..Len(particles)}]

\* the pixels of the radial gradient: every second column and row
GradientPixels(width, height) ==
    {<<x, y>> \in (0..(width - 1)) \X (0..(height - 1)) : x % 2 = 0 /\ y % 2 = 0}

\* twice dx and twice dy, whole numbers for odd sizes too
Dx2(x, width) == 2 * x - width
Dy2(y, height) == 2 * y - height

\* dist > 1.0, decided exactly: dx^2 + dy^2 > (min_dim / 2)^2
OutsideDisc(x, y, width, height) ==
    Dx2(x, width) * Dx2(x, width) + Dy2(y, height) * Dy2(y, height)
        > Min(width, height) * Min(width, height)

\* dist = math.sqrt(dx * dx + dy * dy) / (min_dim / 2) in thousandths, rounded
\* down
Dist(x, y, width, height) ==
    LET d2 == Dx2(x, width) * Dx2(x, width) + Dy2(y, height) * Dy2(y, height)
        min_dim == Min(width, height)
    IN  IsqrtBetween((d2 * Milli * Milli) \div (min_dim * min_dim), 0, 2 * Milli)

\* math.atan2(dy, dx) in degrees, for the eight compass directions and the
\* centre
Atan2Deg(dy, dx) ==
    IF dy = 0 THEN (IF dx >= 0 THEN 0 ELSE 180)
    ELSE IF dx = 0 THEN (IF dy > 0 THEN 90 ELSE -90)
    ELSE IF dy > 0 THEN (IF dx > 0 THEN 45 ELSE 135)
    ELSE (IF dx > 0 THEN -45 ELSE -135)

\* 180 / math.pi, in thousandths
DegPerRad == 57296

\* the colour of the gradient pixel (x, y)
PixelColor(ds, x, y, width, height, tq) ==
    LET dist == Dist(x, y, width, height)
        \* swirl * (radius / min_dim) + t * 0.5 with swirl = mid * 2 and
        \* radius = dist * min_dim / 2, in milliradians
        turn == Scaled(ds.mid, dist) + 5 * tq
        angle == Atan2Deg(Dy2(y, height), Dx2(x, width)) * Milli
                 + (turn * DegPerRad) \div Milli
        base_hue == (angle + tq * 500 + ds.lyric_sentiment * 60) % (FullTurn * Milli)
        hue == base_hue + ds.treble * 40
        saturation == 900 + Scaled(100, ds.energy)
        lightness == 400 + Scaled(400, dist) + Scaled(300, ds.bass)
                     + Scaled(300, ds.beat_pulse)
    IN  HsvCall(hue, saturation, lightness)

NUM_RINGS == 8

\* the colour of ring i
RingColor(ds, i, tq) ==
    HsvCall(30 * Milli + i * 30 * Milli + ds.lyric_sentiment * 60 + tq * 200, 900, 700)

\* draw_psychedelic_frame: every hsv_to_rgb call
DrawPsychedelicFrame(vs, width, height, tq) ==
    LET ds == DrawState(vs)
    IN  [strategy |-> "psychedelic",
         layers |-> <<>>,
         hsv |-> {PixelColor(ds, p[1], p[2], width, height, tq) :
                     p \in {q \in GradientPixels(width, height) :
                               ~OutsideDisc(q[1], q[2], width, height)}}
                 \cup {RingColor(ds, i, tq) : i \in 0..(NUM_RINGS - 1)}]

----------------------------------------------------------------------------
(* make_frame_factory and make_frame *)

\* the render jobs followed: two, which may run concurrently
JobIds == {1, 2}

\* ParticleSystem(width, height, count=5000), followed with one particle
FactoryParticleCount == 1

\* before make_frame_factory is called
NoJob ==
    [created |-> FALSE, mode |-> "", width |-> 0, height |-> 0,
     particle_system |-> NoParticleSystem, frames |-> <<>>, failed |-> FALSE]

NoJobs == [j \in JobIds |-> NoJob]

\* the local variables of one make_frame_factory call, captured by its
\* make_frame: analysis is shared, particle_system is None unless mode is
\* "particles"
MakeFrameFactory(width, height, mode) ==
    { [created |-> TRUE, mode |-> mode, width |-> width, height |-> height,
       particle_system |-> ps, frames |-> <<>>, failed |-> FALSE] :
        ps \in IF mode = "particles"
               THEN ParticleSystemInit(width, height, FactoryParticleCount)
               ELSE {NoParticleSystem} }

\* the selectors make_frame has a branch for
SupportedModes == {"geometric", "particles", "psychedelic"}

\* a dispatch without the else branch: an unknown selector draws nothing
StrategyNoFallback(mode) == IF mode \in SupportedModes THEN mode ELSE "none"

\* the branch make_frame takes for the selector
Strategy(mode) ==
    IF mode = "geometric" THEN "geometric"
    ELSE IF mode = "particles" THEN "particles"
    ELSE IF mode = "psychedelic" THEN "psychedelic"
    ELSE "geometric"

\* what a draw function is given; the image is a function of these
Image(strategy, st, width, height, particles, tq) ==
    [strategy |-> strategy, t |-> tq, width |-> width, height |-> height,
     state |-> st, particles |-> particles]

NoImage == Image("none", VisualStateAtTime, 0, 0, <<>>, 0)

\* the outcomes of make_frame(tq) for a closure whose particle_system is ps:
\* the particle system it leaves behind and the image, or a raised exception
MakeFrame(job, ps, an, tq) ==
    LET st == GetVisualState(an, tq)
        strategy == Strategy(job.mode)
        Raised == {[failed |-> TRUE, particle_system |-> ps, frame |-> NoImage]}
    IN  IF st.raised \/ strategy = "none" THEN Raised
        ELSE IF strategy = "particles"
        THEN IF ps = NoParticleSystem THEN Raised    \* None has no update
             ELSE { [failed |-> FALSE, particle_system |-> ps2,
                     frame |-> Image(strategy, st, job.width, job.height,
                                     ps2.particles, tq)] :
                      ps2 \in Update(ps, st) }
        ELSE { [failed |-> FALSE, particle_system |-> ps,
                frame |-> Image(strategy, st, job.width, job.height, <<>>, tq)] }

\* one module-level cell for every closure
ClosureShared(j) == 1

\* the call frame whose particle_system the make_frame of job j refers to
Closure(j) == j

\* VideoClip asks for frame k at k / FPS seconds, here to the hundredth
FrameTime(k) == (k * 100) \div FPS

----------------------------------------------------------------------------
(* /render-video and render_visual_clip *)

ASPECT_RATIOS == ("16:9" :> <<16, 9>>) @@ ("9:16" :> <<9, 16>>)

RESOLUTION_PRESETS == ("1080p" :> 1080) @@ ("4K" :> 2160)

\* before a request is received
NoRender ==
    [aspect_ratio |-> "", resolution_preset |-> "", visual_mode |-> "",
     w |-> 0, h |-> 0, status |-> "idle"]

\* an endpoint that leaves an odd value as it is
EnsureEvenSkipped(v) == v

\* w = w if w % 2 == 0 else w + 1
EnsureEvenUp(v) == IF v % 2 = 0 THEN v ELSE v + 1

\* width = width if width % 2 == 0 else width - 1
EnsureEvenDown(v) == IF v % 2 = 0 THEN v ELSE v - 1

\* "Compute dimensions" and "Ensure even" of the endpoint: <<w, h>>
Dimensions(aspect_ratio, resolution_preset) ==
    LET ax == ASPECT_RATIOS[aspect_ratio][1]
        ay == ASPECT_RATIOS[aspect_ratio][2]
        h == RESOLUTION_PRESETS[resolution_preset]
        w == RoundHalfEven(h * ax, ay)
    IN  <<EnsureEvenUp(w), EnsureEvenUp(h)>>

----------------------------------------------------------------------------
(* Inputs *)

\* <<bass, mid, treble, energy>> of a frame
BandProfiles ==
    { <<0, 0, 0, 0>>,
      <<1, One, One \div 2, One - 2>>,
      <<One - 2, 1, One, One \div 2>> }

FrameTimes == {100, 102, 104}
InterpTimes == 99..105

FrameFeature ==
    { [time |-> ft, bass |-> p[1], mid |-> p[2], treble |-> p[3], energy |-> p[4]] :
        ft \in FrameTimes, p \in BandProfiles }

BeatTimes == {100, 103, 110}
Strengths == {1, One \div 2, One}
PulseTimes == 93..117

BeatInfo == { [time |-> bt, strength |-> s] : bt \in BeatTimes, s \in Strengths }

SeqsUpTo(S, n) == UNION { [1..k -> S] : k \in 0..n }

EmptyAnalysis ==
    [frames |-> <<>>, beats |-> <<>>, lyrics |-> <<>>, sections |-> <<>>,
     extended |-> FALSE]

----------------------------------------------------------------------------
(* Specification of the interpolation runs *)

InitInterp ==
    /\ \E fs \in SeqsUpTo(FrameFeature, MaxFrames) :
          analysis = [EmptyAnalysis EXCEPT !.frames = fs]
    /\ t \in InterpTimes
    /\ feat = ZeroBands
    /\ pulse = 0
    /\ state = VisualStateAtTime
    /\ particle_system = NoParticleSystem
    /\ steps = 0
    /\ sections_enhanced = NotSegmented
    /\ sections_basic = NotSegmented
    /\ frame = NoFrame
    /\ pc = "input"
    /\ jobs = NoJobs
    /\ render = NoRender

Interpolate ==
    /\ pc = "input"
    /\ feat' = InterpolateFeatures(analysis, t)
    /\ pc' = "done"
    /\ UNCHANGED <<analysis, t, pulse, state, particle_system, steps, sections_enhanced, jobs, render, sections_basic, frame>>

NextInterp == Interpolate

SpecInterp == InitInterp /\ [][NextInterp]_vars

----------------------------------------------------------------------------
(* Specification of the beat-pulse runs *)

InitPulse ==
    /\ \E bs \in SeqsUpTo(BeatInfo, MaxBeats) :
          analysis = [EmptyAnalysis EXCEPT !.beats = bs]
    /\ t \in PulseTimes
    /\ feat = ZeroBands
    /\ pulse = 0
    /\ state = VisualStateAtTime
    /\ particle_system = NoParticleSystem
    /\ steps = 0
    /\ sections_enhanced = NotSegmented
    /\ sections_basic = NotSegmented
    /\ frame = NoFrame
    /\ pc = "input"
    /\ jobs = NoJobs
    /\ render = NoRender

BeatPulse ==
    /\ pc = "input"
    /\ pulse' = GetBeatPulse(analysis, t, BeatWindow)
    /\ pc' = "done"
    /\ UNCHANGED <<analysis, t, feat, state, particle_system, steps, sections_enhanced, jobs, render, sections_basic, frame>>

NextPulse == BeatPulse

SpecPulse == InitPulse /\ [][NextPulse]_vars

----------------------------------------------------------------------------
(* Specification of the visual-state runs *)

VisualFrames ==
    { [time |-> 100, bass |-> 1, mid |-> One, treble |-> One \div 2, energy |-> One - 2],
      [time |-> 104, bass |-> One - 2, mid |-> 1, treble |-> One, energy |-> One \div 2] }

VisualBeats == { [time |-> 103, strength |-> One] }

SectionSet ==
    { [start |-> 0, end |-> 102, type |-> "verse"],
      [start |-> 102, end |-> 104, type |-> "drop"],
      [start |-> 101, end |-> 103, type |-> "chorus"] }

LyricSet ==
    { [start |-> 99, end |-> 102, sentiment |-> -One, intensity |-> One, emotion |-> "sad"],
      [start |-> 102, end |-> 104, sentiment |-> One \div 2, intensity |-> 0, emotion |-> "chill"],
      [start |-> 103, end |-> 103, sentiment |-> One, intensity |-> One \div 2, emotion |-> "happy"] }

VisualTimes == 99..105

InitVisual ==
    /\ \E fs \in SeqsUpTo(VisualFrames, MaxVisual), bs \in SeqsUpTo(VisualBeats, MaxVisual),
          ss \in SeqsUpTo(SectionSet, MaxSpans), ls \in SeqsUpTo(LyricSet, MaxSpans),
          ext \in BOOLEAN :
          analysis = [frames |-> fs, beats |-> bs, lyrics |-> ls, sections |-> ss,
                      extended |-> ext]
    /\ t \in VisualTimes
    /\ feat = ZeroBands
    /\ pulse = 0
    /\ state = VisualStateAtTime
    /\ particle_system = NoParticleSystem
    /\ steps = 0
    /\ sections_enhanced = NotSegmented
    /\ sections_basic = NotSegmented
    /\ frame = NoFrame
    /\ pc = "input"
    /\ jobs = NoJobs
    /\ render = NoRender

VisualState ==
    /\ pc = "input"
    /\ state' = GetVisualState(analysis, t)
    /\ pc' = "done"
    /\ UNCHANGED <<analysis, t, feat, pulse, particle_system, steps, sections_enhanced, jobs, render, sections_basic, frame>>

NextVisual == VisualState

SpecVisual == InitVisual /\ [][NextVisual]_vars

----------------------------------------------------------------------------
(* Specification of the particle runs *)

CanvasSizes == {<<3, 2>>}

\* the counts a system is constructed with (5,000 in the renderer)
ParticleCounts == {1, 2}

\* the VisualState values update is driven with: silence and full bands
DrivingStates ==
    { [VisualStateAtTime EXCEPT !.bass = b, !.mid = b, !.treble = b] : b \in {0, One} }

InitParticles ==
    /\ analysis = EmptyAnalysis
    /\ t = 0
    /\ feat = ZeroBands
    /\ pulse = 0
    /\ state = VisualStateAtTime
    /\ \E wh \in CanvasSizes, count \in ParticleCounts :
          particle_system \in ParticleSystemInit(wh[1], wh[2], count)
    /\ steps = 0
    /\ sections_enhanced = NotSegmented
    /\ sections_basic = NotSegmented
    /\ frame = NoFrame
    /\ pc = "input"
    /\ jobs = NoJobs
    /\ render = NoRender

UpdateStep ==
    /\ steps < MaxSteps
    /\ \E vs \in DrivingStates :
          /\ state' = vs
          /\ particle_system' \in Update(particle_system, vs)
    /\ steps' = steps + 1
    /\ UNCHANGED <<analysis, t, feat, pulse, sections_enhanced, pc, jobs, render, sections_basic, frame>>

NextParticles == UpdateStep

SpecParticles == InitParticles /\ [][NextParticles]_vars

----------------------------------------------------------------------------
(* Specification of the segmenter runs *)

SegTimes == {0, 150, 250, 500, 800}
SegEnergies == {0, 1, 2}

SegFrames ==
    { [time |-> ft, bass |-> 0, mid |-> 0, treble |-> 0, energy |-> e] :
        ft \in SegTimes, e \in SegEnergies }

Duration(frames) == frames[Len(frames)].time

Sorted(frames) == \A i \in 1..(Len(frames) - 1) : frames[i].time <= frames[i + 1].time

\* longer tracks, sampled every step hundredths of a second
TrackEnergy(shape, i, n) ==
    CASE shape = "peak" -> IF n <= 3 * i /\ 3 * i < 2 * n THEN 1 ELSE 0
      [] shape = "steps" -> (i \div 5) % 2
      [] OTHER -> 1

Track(n, step, shape) ==
    [i \in 1..n |-> [time |-> (i - 1) * step, bass |-> 0, mid |-> 0, treble |-> 0,
                     energy |-> TrackEnergy(shape, i - 1, n)]]

Tracks ==
    { Track(n, step, shape) : n \in {12, 40}, step \in {50, 100},
                              shape \in {"peak", "steps", "flat"} }

\* the ramp track: a sample every 0.1 s over 10 s, energy rising linearly
\* from 0 at t = 0 to 1 at t = 5 and falling back to 0 at t = 10
RampSamples == 101
RampStep == 10
RampPeak == 50      \* index of the sample at t = 5

Ramp ==
    [i \in 1..RampSamples |->
        [time |-> (i - 1) * RampStep, bass |-> 0, mid |-> 0, treble |-> 0,
         energy |-> ((RampPeak - Abs(i - 1 - RampPeak)) * EnergyOne) \div RampPeak]]

SegLyrics ==
    { [start |-> 0, end |-> 300, sentiment |-> One, intensity |-> One, emotion |-> "happy"],
      [start |-> 250, end |-> 800, sentiment |-> -One, intensity |-> One \div 2, emotion |-> "sad"],
      [start |-> 500, end |-> 3000, sentiment |-> 0, intensity |-> 0, emotion |-> "chill"] }

InitSeg ==
    /\ \E fs \in {f \in SeqsUpTo(SegFrames, MaxSegFrames) : Sorted(f)} \cup Tracks
                      \cup {Ramp},
          bs \in SeqsUpTo(VisualBeats, 1),
          ls \in SeqsUpTo(SegLyrics, MaxSegLyrics) :
          analysis = [EmptyAnalysis EXCEPT !.frames = fs, !.beats = bs, !.lyrics = ls,
                                           !.extended = TRUE]
    /\ t = 0
    /\ feat = ZeroBands
    /\ pulse = 0
    /\ state = VisualStateAtTime
    /\ particle_system = NoParticleSystem
    /\ steps = 0
    /\ sections_enhanced = NotSegmented
    /\ sections_basic = NotSegmented
    /\ frame = NoFrame
    /\ pc = "input"
    /\ jobs = NoJobs
    /\ render = NoRender

\* analyze_audio_extended: detect the sections and put them into the response
DetectSections ==
    /\ pc = "input"
    /\ sections_enhanced' =
           DetectSectionsEnhanced(analysis.frames, analysis.beats, analysis.lyrics)
    /\ analysis' = [analysis EXCEPT !.sections = sections_enhanced'.sections]
    /\ pc' = "done"
    /\ UNCHANGED <<t, feat, pulse, state, particle_system, steps, jobs, render, sections_basic, frame>>

NextSeg == DetectSections

SpecSeg == InitSeg /\ [][NextSeg]_vars

----------------------------------------------------------------------------
(* Specification of the basic analysis runs *)

\* tracks of 5.5 s to 40 s, one of them of 20.0 s
BasicTracks ==
    { Track(n, step, shape) : n \in {12, 21}, step \in {50, 100, 200},
                              shape \in {"peak", "steps", "flat"} }

\* librosa.get_duration minus the time of the last STFT frame
DurationPads == {0, 1, 10, 50}

InitBasic ==
    /\ \E fs \in BasicTracks, pad \in DurationPads :
          analysis = [frames |-> fs, beats |-> <<>>, lyrics |-> <<>>, sections |-> <<>>,
                      extended |-> FALSE, duration |-> Duration(fs) + pad]
    /\ t = 0
    /\ feat = ZeroBands
    /\ pulse = 0
    /\ state = VisualStateAtTime
    /\ particle_system = NoParticleSystem
    /\ steps = 0
    /\ sections_enhanced = NotSegmented
    /\ sections_basic = NotSegmented
    /\ frame = NoFrame
    /\ pc = "input"
    /\ jobs = NoJobs
    /\ render = NoRender

\* analyze_audio from "Detect sections (basic)" on: an exception leaves no
\* response
AnalyzeAudio ==
    /\ pc = "input"
    /\ sections_basic' = DetectSectionsBasic(analysis.duration, analysis.frames)
    /\ analysis' = IF sections_basic'.raised THEN analysis
                   ELSE [analysis EXCEPT !.sections = sections_basic'.sections]
    /\ pc' = "done"
    /\ UNCHANGED <<t, feat, pulse, state, particle_system, steps, sections_enhanced,
                   jobs, render, frame>>

NextBasic == AnalyzeAudio

SpecBasic == InitBasic /\ [][NextBasic]_vars

----------------------------------------------------------------------------
(* Specification of the draw runs: one frame drawn by one strategy *)

\* the labels get_current_section can hand over: the five the segmenter
\* emits and one it does not
DrawSections == {"intro", "verse", "chorus", "drop", "bridge", "outro"}

\* the ends of a 0..1 range
DrawLevels == {0, One}

\* VisualState values within their declared ranges
DrawStates ==
    { [VisualStateAtTime EXCEPT !.bass = b, !.mid = b, !.treble = b, !.energy = e,
                                !.beat_pulse = p, !.lyric_energy = le,
                                !.lyric_sentiment = s, !.current_section = section] :
        b \in DrawLevels, e \in DrawLevels, p \in DrawLevels, le \in DrawLevels,
        s \in {-One, 0, One}, section \in DrawSections }

\* frame times 0, 3, 7 and 9 s: morph is 0.5, 0.999, 0.325 and 0.011
DrawTimes == {0, 300, 700, 900}

\* the canvas: its gradient pixels inside the disc lie in the eight compass
\* directions from the centre
DrawCanvas == <<8, 8>>

\* one particle, about to expire or fresh
DrawParticleSystems ==
    { ps \in ParticleSystemInit(DrawCanvas[1], DrawCanvas[2], FactoryParticleCount) :
        /\ ps.particles[1].x = 0
        /\ ps.particles[1].vx = 1
        /\ ps.particles[1].life \in {2, 999} }

InitDraw ==
    /\ analysis = EmptyAnalysis
    /\ t \in DrawTimes
    /\ feat = ZeroBands
    /\ pulse = 0
    /\ state \in {[vs EXCEPT !.time = t] : vs \in DrawStates}
    /\ particle_system \in DrawParticleSystems
    /\ steps = 0
    /\ sections_enhanced = NotSegmented
    /\ sections_basic = NotSegmented
    /\ frame = NoFrame
    /\ pc = "input"
    /\ jobs = NoJobs
    /\ render = NoRender

\* draw_geometric_frame(state, width, height, t)
DrawGeometric ==
    /\ pc = "input"
    /\ frame' = DrawGeometricFrame(state, DrawCanvas[1], DrawCanvas[2], t)
    /\ pc' = "done"
    /\ UNCHANGED <<analysis, t, feat, pulse, state, particle_system, steps,
                   sections_enhanced, jobs, render, sections_basic>>

\* draw_particle_frame(state, width, height, particle_system, t)
DrawParticle ==
    /\ pc = "input"
    /\ particle_system' \in Update(particle_system, state)
    /\ steps' = steps + 1
    /\ frame' = DrawParticleFrame(state, particle_system'.particles, t)
    /\ pc' = "done"
    /\ UNCHANGED <<analysis, t, feat, pulse, state, sections_enhanced, jobs, render,
                   sections_basic>>

\* draw_psychedelic_frame(state, width, height, t)
DrawPsychedelic ==
    /\ pc = "input"
    /\ frame' = DrawPsychedelicFrame(state, DrawCanvas[1], DrawCanvas[2], t)
    /\ pc' = "done"
    /\ UNCHANGED <<analysis, t, feat, pulse, state, particle_system, steps,
                   sections_enhanced, jobs, render, sections_basic>>

NextDraw == DrawGeometric \/ DrawParticle \/ DrawPsychedelic

SpecDraw == InitDraw /\ [][NextDraw]_vars

----------------------------------------------------------------------------
(* Specification of the render jobs: make_frame_factory called directly *)

\* the selectors make_frame_factory is called with: the three it knows, the
\* fourth literal of RenderRequest.visual_mode, and two other strings
ModeSelectors == {"geometric", "particles", "psychedelic", "threeD", "particle", ""}

\* the analyses rendered: nothing at all, and a short track that is loud at
\* its first frame and silent in the three bands from the second on
RenderAnalyses ==
    { EmptyAnalysis,
      [frames |-> <<[time |-> 0, bass |-> One, mid |-> 1, treble |-> One \div 2,
                     energy |-> One \div 2],
                    [time |-> 3, bass |-> 0, mid |-> 0, treble |-> 0, energy |-> 1]>>,
       beats |-> <<[time |-> 3, strength |-> One]>>,
       lyrics |-> <<>>,
       sections |-> <<[start |-> 0, end |-> 2, type |-> "verse"]>>,
       extended |-> FALSE] }

\* the <<width, height>> the factory is called with
JobCanvasSizes == {<<2, 2>>}

InitRender ==
    /\ analysis \in RenderAnalyses
    /\ t = 0
    /\ feat = ZeroBands
    /\ pulse = 0
    /\ state = VisualStateAtTime
    /\ particle_system = NoParticleSystem
    /\ steps = 0
    /\ sections_enhanced = NotSegmented
    /\ sections_basic = NotSegmented
    /\ frame = NoFrame
    /\ pc = "input"
    /\ jobs = NoJobs
    /\ render = NoRender

\* a render job starts: make_frame_factory(analysis, width, height, mode)
CreateJob(j) ==
    /\ ~jobs[j].created
    /\ \E wh \in JobCanvasSizes, mode \in ModeSelectors :
          \E job \in MakeFrameFactory(wh[1], wh[2], mode) :
              jobs' = [jobs EXCEPT ![j] = job]
    /\ UNCHANGED <<analysis, t, feat, pulse, state, particle_system, steps,
                   sections_enhanced, pc, render, sections_basic, frame>>

\* one call make_frame(tq) of job j's closure
CallMakeFrame(j, tq) ==
    /\ \E o \in MakeFrame(jobs[j], jobs[Closure(j)].particle_system, analysis, tq) :
          jobs' = [jobs EXCEPT ![Closure(j)].particle_system = o.particle_system,
                               ![j].frames = IF o.failed THEN @ ELSE Append(@, o.frame),
                               ![j].failed = o.failed]
    /\ UNCHANGED <<analysis, t, feat, pulse, state, particle_system, steps,
                   sections_enhanced, pc, render, sections_basic, frame>>

\* the video writer of job j asks for its next frame: make_frame(t)
RequestFrame(j) ==
    /\ jobs[j].created
    /\ ~jobs[j].failed
    /\ Len(jobs[j].frames) < MaxJobFrames
    /\ CallMakeFrame(j, FrameTime(Len(jobs[j].frames)))

NextRender == \E j \in JobIds : CreateJob(j) \/ RequestFrame(j)

SpecRender == InitRender /\ [][NextRender]_vars

----------------------------------------------------------------------------
(* Specification of a clip driver that asks for frames at any times *)

\* the job the driver works on
ClipJob == 1

\* the times a driver asks for: the first three frame times, in any order
ClipTimes == {FrameTime(k) : k \in 0..2}

InitClip == InitRender

\* make_frame = make_frame_factory(analysis, width, height, mode)
CreateClip == CreateJob(ClipJob)

\* the driver calls make_frame(t) for a t of its choice
GetFrame ==
    /\ jobs[ClipJob].created
    /\ ~jobs[ClipJob].failed
    /\ Len(jobs[ClipJob].frames) < MaxJobFrames
    /\ \E tq \in ClipTimes : CallMakeFrame(ClipJob, tq)

NextClip == CreateClip \/ GetFrame

SpecClip == InitClip /\ [][NextClip]_vars

----------------------------------------------------------------------------
(* Specification of the /render-video calls *)

AspectRatioInputs == {"16:9", "9:16", "4:3"}
ResolutionPresetInputs == {"1080p", "4K", "720p"}

\* RenderRequest.visual_mode: Literal["geometric", "psychedelic", "particles", "threeD"]
VisualModes == {"geometric", "psychedelic", "particles", "threeD"}

InitEndpoint ==
    /\ analysis \in RenderAnalyses
    /\ t = 0
    /\ feat = ZeroBands
    /\ pulse = 0
    /\ state = VisualStateAtTime
    /\ particle_system = NoParticleSystem
    /\ steps = 0
    /\ sections_enhanced = NotSegmented
    /\ sections_basic = NotSegmented
    /\ frame = NoFrame
    /\ pc = "input"
    /\ jobs = NoJobs
    /\ \E ar \in AspectRatioInputs, rp \in ResolutionPresetInputs, vm \in VisualModes :
          render = [NoRender EXCEPT !.aspect_ratio = ar, !.resolution_preset = rp,
                                    !.visual_mode = vm, !.status = "request"]

\* render_video up to the call of render_visual_clip: validate, compute w, h
RenderVideo ==
    /\ render.status = "request"
    /\ render' =
          IF render.aspect_ratio \notin DOMAIN ASPECT_RATIOS
                \/ render.resolution_preset \notin DOMAIN RESOLUTION_PRESETS
          THEN [render EXCEPT !.status = "rejected"]        \* HTTP 400
          ELSE LET wh == Dimensions(render.aspect_ratio, render.resolution_preset)
               IN  [render EXCEPT !.w = wh[1], !.h = wh[2], !.status = "dimensioned"]
    /\ UNCHANGED <<analysis, t, feat, pulse, state, particle_system, steps,
                   sections_enhanced, pc, jobs, sections_basic, frame>>

\* render_visual_clip up to the video writer: even dimensions, frame factory
RenderVisualClip ==
    /\ render.status = "dimensioned"
    /\ \E job \in MakeFrameFactory(EnsureEvenDown(render.w), EnsureEvenDown(render.h),
                                     render.visual_mode) :
          jobs' = [jobs EXCEPT ![1] = job]
    /\ render' = [render EXCEPT !.status = "rendering"]
    /\ UNCHANGED <<analysis, t, feat, pulse, state, particle_system, steps,
                   sections_enhanced, pc, sections_basic, frame>>

\* write_videofile: the frames of the clip, one make_frame call each
WriteFrame ==
    /\ render.status = "rendering"
    /\ RequestFrame(1)

\* render_visual_clip returns, or its exception becomes HTTP 500
FinishRender ==
    /\ render.status = "rendering"
    /\ IF jobs[1].failed THEN TRUE ELSE Len(jobs[1].frames) = MaxJobFrames
    /\ render' = [render EXCEPT !.status = IF jobs[1].failed THEN "failed" ELSE "done"]
    /\ UNCHANGED <<analysis, t, feat, pulse, state, particle_system, steps,
                   sections_enhanced, pc, jobs, sections_basic, frame>>

NextEndpoint == RenderVideo \/ RenderVisualClip \/ WriteFrame \/ FinishRender

SpecEndpoint == InitEndpoint /\ [][NextEndpoint]_vars

----------------------------------------------------------------------------
(* Properties of interpolate_features *)

StrictlyIncreasing(frames) ==
    \A i \in 1..(Len(frames) - 1) : frames[i].time < frames[i + 1].time

\* C3: interpolate_features clamps at the ends.  For every frame list, a t at
\* or before the first sample time yields exactly the first sample's four
\* values; for a strictly increasing list, a t at or after the last sample
\* time yields exactly the last sample's four values.
C3_ClampAtEnds ==
    (pc = "done" /\ analysis.frames # <<>>) =>
        LET frames == analysis.frames
            last == frames[Len(frames)]
        IN  /\ t <= frames[1].time => feat = Bands(frames[1])
            /\ (StrictlyIncreasing(frames) /\ t >= last.time) => feat = Bands(last)

C3_Witness ==
    /\ pc = "done"
    /\ Len(analysis.frames) >= 2
    /\ StrictlyIncreasing(analysis.frames)
    /\ t >= analysis.frames[Len(analysis.frames)].time
    /\ feat = Bands(analysis.frames[Len(analysis.frames)])
    /\ feat # Bands(analysis.frames[1])

\* C4: for a strictly increasing sample series, a query at the time of any
\* sample (first, interior or last) returns exactly that sample's four values.
C4_TieResolvesToSample ==
    (pc = "done" /\ StrictlyIncreasing(analysis.frames)) =>
        \A i \in 1..Len(analysis.frames) :
            analysis.frames[i].time = t => feat = Bands(analysis.frames[i])

\* the call runs past the search loop to the final "return" of zeros
ReachesFallback(frames, tq) ==
    /\ frames # <<>>
    /\ ~(tq <= frames[1].time)
    /\ ~ClampLast(frames, tq)
    /\ Brackets(frames, tq) = {}

\* C21: for any non-empty frame list, sorted or not, with or without
\* duplicate times, interpolate_features does not raise, reads no index
\* outside the list and does not reach its final all-zero return: the result
\* is one sample's values or the interpolation between two adjacent samples
\* with alpha in 0..1.
C21_NoFallback ==
    (pc = "done" /\ analysis.frames # <<>>) =>
        LET frames == analysis.frames
        IN  /\ ~feat.raised
            /\ ~ReachesFallback(frames, t)
            /\ \/ \E i \in 1..Len(frames) : feat = Bands(frames[i])
               \/ \E i \in 1..(Len(frames) - 1) :
                      /\ frames[i].time <= t /\ t <= frames[i + 1].time
                      /\ 0 <= Alpha(frames[i], frames[i + 1], t)
                      /\ Alpha(frames[i], frames[i + 1], t) <= One
                      /\ feat = Interpolated(frames[i], frames[i + 1], t)

\* an unsorted list queried strictly between its first and last sample times
C21_Witness ==
    /\ pc = "done"
    /\ Len(analysis.frames) = 3
    /\ analysis.frames[2].time > analysis.frames[3].time
    /\ analysis.frames[1].time < t
    /\ t < analysis.frames[3].time
    /\ 0 < Alpha(analysis.frames[1], analysis.frames[2], t)
    /\ feat = Interpolated(analysis.frames[1], analysis.frames[2], t)
    /\ \A i \in 1..3 : feat # Bands(analysis.frames[i])

----------------------------------------------------------------------------
(* Properties of get_beat_pulse *)

\* what one beat contributes at time tq
Contribution(beat, tq) ==
    IF Abs(tq - beat.time) < BeatWindow
    THEN BeatStrength(beat, Abs(tq - beat.time), BeatWindow)
    ELSE 0

\* C5: with a single beat at b of strength s the pulse is s at t = b, is 0 at
\* t = b + 0.06, at t = b - 0.06 and everywhere farther away, and does not
\* grow as |t - b| grows.
C5_SingleBeatDecay ==
    (pc = "done" /\ Len(analysis.beats) = 1) =>
        LET b == analysis.beats[1].time
            s == analysis.beats[1].strength
        IN  /\ t = b => pulse = s
            /\ Abs(t - b) >= BeatWindow => pulse = 0
            /\ \A u \in PulseTimes :
                   Abs(u - b) >= Abs(t - b) =>
                       GetBeatPulse(analysis, u, BeatWindow) <= pulse

C5_Witness ==
    /\ pc = "done"
    /\ Len(analysis.beats) = 1
    /\ t # analysis.beats[1].time
    /\ Abs(t - analysis.beats[1].time) < BeatWindow
    /\ 0 < pulse
    /\ pulse < analysis.beats[1].strength

\* C6: the pulse is the largest single contribution among the beats, never
\* their sum, so with strengths in 0..1 it stays in 0..1.
C6_PulseIsMaximum ==
    pc = "done" =>
        LET cs == {Contribution(analysis.beats[i], t) : i \in 1..Len(analysis.beats)}
        IN  /\ pulse \in cs \cup {0}
            /\ \A c \in cs : c <= pulse
            /\ 0 <= pulse /\ pulse <= One

C6_Witness ==
    /\ pc = "done"
    /\ Len(analysis.beats) = 2
    /\ \A i \in 1..2 : Contribution(analysis.beats[i], t) > 0
    /\ Contribution(analysis.beats[1], t) + Contribution(analysis.beats[2], t) > One
    /\ pulse <= One

----------------------------------------------------------------------------
(* Properties of get_visual_state *)

\* C9: with no frames, no beats and no sections, get_visual_state returns for
\* every t, without raising, bass = mid = treble = energy = 0, beat_pulse = 0
\* and current_section = "intro".
C9_EmptyTimeline ==
    (/\ pc = "done"
     /\ analysis.frames = <<>>
     /\ analysis.beats = <<>>
     /\ analysis.sections = <<>>) =>
        /\ ~state.raised
        /\ state.time = t
        /\ state.bass = 0 /\ state.mid = 0 /\ state.treble = 0 /\ state.energy = 0
        /\ state.beat_pulse = 0
        /\ state.current_section = "intro"

C9_Witness ==
    /\ pc = "done"
    /\ analysis.frames = <<>>
    /\ analysis.beats = <<>>
    /\ analysis.sections = <<>>
    /\ analysis.extended
    /\ state.time = t
    /\ state.energy = 0
    /\ state.lyric_sentiment # 0

\* C11: get_current_section returns the type of the first section, in list
\* order, whose closed interval [start, end] contains t, so at a time that is
\* the end of one section and the start of the next the earlier one wins;
\* it returns "intro" when no section contains t or there are no sections.
C11_FirstContainingSection ==
    pc = "done" =>
        LET ss == analysis.sections
            holds(i) == ss[i].start <= t /\ t <= ss[i].end
        IN  /\ \A i \in 1..Len(ss) :
                   (holds(i) /\ \A j \in 1..(i - 1) : ~holds(j)) =>
                       state.current_section = ss[i].type
            /\ (\A i \in 1..Len(ss) : ~holds(i)) => state.current_section = "intro"

C11_Witness ==
    /\ pc = "done"
    /\ Len(analysis.sections) = 2
    /\ analysis.sections[1].end = t
    /\ analysis.sections[2].start = t
    /\ analysis.sections[1].type # analysis.sections[2].type
    /\ state.current_section = analysis.sections[1].type

\* C12: get_visual_state takes lyric_sentiment and lyric_energy from the
\* sentiment and intensity of the first lyric segment, in list order, whose
\* closed interval [start, end] contains t; when no segment contains t, or
\* the analysis carries no lyric segments, lyric_sentiment is 0 and
\* lyric_energy is the interpolated spectral energy at t.
C12_FirstContainingLyric ==
    pc = "done" =>
        LET ls == IF analysis.extended THEN analysis.lyrics ELSE <<>>
            holds(i) == ls[i].start <= t /\ t <= ls[i].end
        IN  /\ \A i \in 1..Len(ls) :
                   (holds(i) /\ \A j \in 1..(i - 1) : ~holds(j)) =>
                       /\ state.lyric_sentiment = ls[i].sentiment
                       /\ state.lyric_energy = ls[i].intensity
            /\ (\A i \in 1..Len(ls) : ~holds(i)) =>
                   /\ state.lyric_sentiment = 0
                   /\ state.lyric_energy = InterpolateFeatures(analysis, t).energy
                   /\ state.lyric_energy = state.energy

C12_Witness ==
    /\ pc = "done"
    /\ analysis.extended
    /\ Len(analysis.lyrics) = 2
    /\ \A i \in 1..2 : ~(analysis.lyrics[i].start <= t /\ t <= analysis.lyrics[i].end)
    /\ analysis.frames # <<>>
    /\ state.lyric_sentiment = 0
    /\ state.lyric_energy = state.energy
    /\ state.energy # 0

----------------------------------------------------------------------------
(* Properties of ParticleSystem *)

\* C7: after any number of update steps the number of particles equals the
\* count given at construction; update never adds or removes a particle.
C7_ParticleCountConstant ==
    /\ Len(particle_system.particles) = particle_system.count
    /\ particle_system.count \in ParticleCounts

\* a step in which a particle was respawned has been taken
C7_Witness ==
    /\ steps >= 2
    /\ \E i \in 1..Len(particle_system.particles) :
          particle_system.particles[i].life = LifeOne
    /\ particle_system.count = 2
    /\ Len(particle_system.particles) = 2

\* C8: after any number of update steps every particle has 0 <= x < width and
\* 0 <= y < height.
C8_PositionsHalfOpen ==
    \A i \in 1..Len(particle_system.particles) :
        LET p == particle_system.particles[i]
        IN  /\ 0 <= p.x /\ p.x < particle_system.width
            /\ 0 <= p.y /\ p.y < particle_system.height

\* C23 (an update step is a step that counts one more in steps): every
\* update step leaves each particle with a life in (0, 1]: it
\* lowers the life by exactly 0.002, and a particle whose life thereby
\* becomes <= 0 gets life 1.0 and a new position inside the canvas in the
\* same step.
C23_LifeInRange ==
    [][steps' = steps + 1 =>
          \A i \in 1..Len(particle_system.particles) :
              LET p == particle_system.particles[i]
                  q == particle_system'.particles[i]
              IN  /\ 0 < q.life /\ q.life <= LifeOne
                  /\ IF p.life - LifeDecrement > 0
                     THEN q.life = p.life - LifeDecrement
                     ELSE /\ q.life = LifeOne
                          /\ 0 <= q.x /\ q.x <= particle_system.width
                          /\ 0 <= q.y /\ q.y <= particle_system.height]_vars

\* one particle respawned from life 0.002 and one lowered from 0.003 to 0.001
C23_Witness ==
    /\ steps = 1
    /\ Len(particle_system.particles) = 2
    /\ particle_system.particles[1].life = LifeOne
    /\ particle_system.particles[2].life = 3 - LifeDecrement

----------------------------------------------------------------------------
(* Properties of make_frame_factory *)

\* C13: for every mode selector that is not geometric, particles or
\* psychedelic, every frame of the job is drawn by the geometric strategy,
\* the job has no particle simulator at any time, and no frame request
\* fails; in every job a particle frame is drawn only when the job has a
\* particle simulator.
C13_UnknownModeFallsBack ==
    \A j \in JobIds :
        jobs[j].created =>
            /\ jobs[j].mode \notin SupportedModes =>
                   /\ ~jobs[j].failed
                   /\ jobs[j].particle_system = NoParticleSystem
                   /\ \A k \in 1..Len(jobs[j].frames) :
                          /\ jobs[j].frames[k].strategy = "geometric"
                          /\ jobs[j].frames[k].particles = <<>>
            /\ \A k \in 1..Len(jobs[j].frames) :
                   jobs[j].frames[k].strategy = "particles" =>
                       /\ jobs[j].particle_system # NoParticleSystem
                       /\ jobs[j].mode = "particles"

C13_Witness ==
    \E j \in JobIds :
        /\ jobs[j].mode = "threeD"
        /\ Len(jobs[j].frames) = MaxJobFrames
        /\ \A k \in 1..MaxJobFrames : jobs[j].frames[k].strategy = "geometric"
        /\ analysis.frames # <<>>

\* C14: two render jobs on the same analysis with the same mode and the same
\* dimensions that were asked for the same sequence of frame times have
\* produced identical frame sequences, in every mode.
C14_RenderDeterministic ==
    \A j, k \in JobIds :
        (/\ jobs[j].created /\ jobs[k].created
         /\ jobs[j].mode = jobs[k].mode
         /\ jobs[j].width = jobs[k].width /\ jobs[j].height = jobs[k].height
         /\ Len(jobs[j].frames) = Len(jobs[k].frames)
         /\ \A i \in 1..Len(jobs[j].frames) : jobs[j].frames[i].t = jobs[k].frames[i].t)
        => jobs[j].frames = jobs[k].frames

\* C15: each render job owns its particle system.  A frame request of job j
\* leaves every other job as it was, and what it does to job j (the particle
\* system it leaves and the frame it appends) is an outcome of make_frame on
\* job j's own particle system.
C15_JobsIsolated ==
    [][\A j \in JobIds :
          RequestFrame(j) =>
              /\ \A k \in JobIds \ {j} : jobs'[k] = jobs[k]
              /\ \E o \in MakeFrame(jobs[j], jobs[j].particle_system, analysis,
                                    FrameTime(Len(jobs[j].frames))) :
                    /\ ~o.failed
                    /\ jobs'[j].particle_system = o.particle_system
                    /\ jobs'[j].frames = Append(jobs[j].frames, o.frame)]_vars

\* two particle jobs whose frame requests were interleaved
C15_Witness ==
    /\ \A j \in JobIds : jobs[j].mode = "particles" /\ Len(jobs[j].frames) = MaxJobFrames
    /\ jobs[1].particle_system # jobs[2].particle_system
    /\ analysis.frames # <<>>

\* the times at which the particle system of a particle job was advanced:
\* draw_particle_frame calls update once, before it draws, so every frame
\* returned stands for one update, made at that frame's t
AdvanceTimes(job) == [k \in 1..Len(job.frames) |-> job.frames[k].t]

\* C22: in particle mode the simulator is advanced once per output frame and
\* only in strictly increasing time order, whatever sequence of make_frame(t)
\* calls the driver issues: the times of its advances are strictly
\* increasing.
C22_AdvancedInTimeOrder ==
    \A j \in JobIds :
        (jobs[j].created /\ Strategy(jobs[j].mode) = "particles") =>
            LET at == AdvanceTimes(jobs[j])
            IN  \A k \in 1..(Len(at) - 1) : at[k] < at[k + 1]

----------------------------------------------------------------------------
(* Properties of the draw functions *)

\* C25: in the geometric strategy the shape of each of the 6 layers is
\* determined by the section label alone: intro draws a circle, verse and
\* chorus a polygon with 3..9 sides, drop a mandala.
C25_ShapeByLabel ==
    frame.strategy = "geometric" =>
        /\ Len(frame.layers) = NUM_LAYERS
        /\ \A l \in 1..Len(frame.layers) :
              /\ state.current_section = "intro" => frame.layers[l].shape = "circle"
              /\ state.current_section \in {"verse", "chorus"} =>
                    /\ frame.layers[l].shape = "polygon"
                    /\ frame.layers[l].sides \in 3..9
              /\ state.current_section = "drop" => frame.layers[l].shape = "mandala"

\* C27: for each of the labels intro, verse, chorus, drop and bridge the
\* geometric strategy draws a circle, a polygon or a mandala for every one
\* of its 6 layers.
C27_EveryLabelDrawn ==
    (frame.strategy = "geometric" /\ state.current_section \in KnownShapeTypes) =>
        /\ Len(frame.layers) = NUM_LAYERS
        /\ \A l \in 1..Len(frame.layers) :
              frame.layers[l].shape \in {"circle", "polygon", "mandala"}

\* C30: for a VisualState within its declared ranges every saturation and
\* brightness handed to hsv_to_rgb by the three strategies lies in 0..1 and
\* every colour channel returned lies in 0..255.
C30_ColoursInRange ==
    \A call \in frame.hsv :
        /\ 0 <= call.s /\ call.s <= Milli
        /\ 0 <= call.v /\ call.v <= Milli
        /\ \A ch \in 1..3 : 0 <= call.rgb[ch] /\ call.rgb[ch] <= ChannelMax

----------------------------------------------------------------------------
(* Properties of /render-video *)

\* C18: for every configured aspect ratio and resolution preset the request
\* is accepted, w and h are positive even integers, render_visual_clip's
\* evenness adjustment leaves them unchanged, and they are the width and
\* height of the frame factory, of its particle system and of every frame.
C18_EvenDimensions ==
    /\ render.status = "rejected" <=>
           (render.status # "idle" /\ render.status # "request" /\
            ~(render.aspect_ratio \in {"16:9", "9:16"} /\
              render.resolution_preset \in {"1080p", "4K"}))
    /\ render.status \in {"dimensioned", "rendering", "done", "failed"} =>
           /\ render.w > 0 /\ render.w % 2 = 0
           /\ render.h > 0 /\ render.h % 2 = 0
           /\ EnsureEvenDown(render.w) = render.w
           /\ EnsureEvenDown(render.h) = render.h
    /\ jobs[1].created =>
           /\ jobs[1].width = render.w /\ jobs[1].height = render.h
           /\ jobs[1].mode = "particles" =>
                  /\ jobs[1].particle_system.width = render.w
                  /\ jobs[1].particle_system.height = render.h
           /\ \A k \in 1..Len(jobs[1].frames) :
                  /\ jobs[1].frames[k].width = render.w
                  /\ jobs[1].frames[k].height = render.h

\* 9:16 at 4K: round(2160 * 9 / 16) = 1215 is odd and becomes 1216
C18_Witness ==
    /\ render.status = "done"
    /\ render.aspect_ratio = "9:16"
    /\ render.resolution_preset = "4K"
    /\ render.w = 1216 /\ render.h = 2160
    /\ jobs[1].mode = "particles"
    /\ Len(jobs[1].frames) = MaxJobFrames
    /\ jobs[1].frames[1].width = 1216

----------------------------------------------------------------------------
(* Properties of detect_sections_enhanced *)

\* C1: for a non-empty, time-sorted timeline, with or without lyrics, the
\* returned sections start at 0, end at duration (the last sample time) and
\* are contiguous and non-overlapping: each section's end is the next one's
\* start.
C1_SectionsCover ==
    (pc = "done" /\ analysis.frames # <<>>) =>
        LET ss == sections_enhanced.sections
        IN  /\ ss # <<>>
            /\ ss[1].start = 0
            /\ ss[Len(ss)].end = Duration(analysis.frames)
            /\ \A i \in 1..(Len(ss) - 1) : ss[i].end = ss[i + 1].start
            /\ \A i \in 1..Len(ss) : ss[i].start <= ss[i].end

C1_Witness ==
    /\ pc = "done"
    /\ analysis.lyrics # <<>>
    /\ Len(analysis.frames) = MaxSegFrames
    /\ Len(sections_enhanced.sections) >= 3
    /\ sections_enhanced.sections[3].end = Duration(analysis.frames)

\* C2: every section returned for a non-empty timeline, a single sample at
\* time 0 included, has start < end.
C2_SectionsNonEmpty ==
    (pc = "done" /\ analysis.frames # <<>>) =>
        \A i \in 1..Len(sections_enhanced.sections) :
            sections_enhanced.sections[i].start < sections_enhanced.sections[i].end

\* C10: with an empty frame list the result is the empty section list and
\* nothing is raised, whatever beats and lyrics are supplied.
C10_NoFramesNoSections ==
    (pc = "done" /\ analysis.frames = <<>>) =>
        /\ ~sections_enhanced.raised
        /\ sections_enhanced.sections = <<>>

C10_Witness ==
    /\ pc = "done"
    /\ analysis.frames = <<>>
    /\ analysis.beats # <<>>
    /\ analysis.lyrics # <<>>
    /\ sections_enhanced.sections = <<>>

\* C16: when no lyrics are supplied the lyric density is 0 at every sample,
\* and every returned section has type intro, drop or bridge; verse and
\* chorus are never produced.
C16_NoLyricsNoVerseChorus ==
    (pc = "done" /\ analysis.frames # <<>> /\ analysis.lyrics = <<>>) =>
        /\ \A i \in 1..Len(analysis.frames) :
               Prepare(analysis.frames, analysis.lyrics).density[i] = 0
        /\ \A i \in 1..Len(sections_enhanced.sections) :
               sections_enhanced.sections[i].type \in {"intro", "drop", "bridge"}

C16_Witness ==
    /\ pc = "done"
    /\ analysis.lyrics = <<>>
    /\ \E i, j \in 1..Len(sections_enhanced.sections) :
          /\ sections_enhanced.sections[i].type = "drop"
          /\ sections_enhanced.sections[j].type = "bridge"

\* C24: for a non-empty sorted timeline whose last sample time is below
\* 2.0 s, detect_sections_enhanced returns exactly one section, of type
\* intro, from 0 to duration, whatever the energies and the lyrics are.
C24_ShortTrackSingleIntro ==
    (/\ pc = "done"
     /\ analysis.frames # <<>>
     /\ Duration(analysis.frames) < MinSectionLength) =>
        /\ ~sections_enhanced.raised
        /\ Len(sections_enhanced.sections) = 1
        /\ sections_enhanced.sections[1].type = "intro"
        /\ sections_enhanced.sections[1].start = 0
        /\ sections_enhanced.sections[1].end = Duration(analysis.frames)

\* a 1.5 s track with lyrics in which a window is labelled other than intro
C24_Witness ==
    /\ pc = "done"
    /\ Len(analysis.frames) = MaxSegFrames
    /\ Duration(analysis.frames) = 150
    /\ analysis.frames[1].energy # analysis.frames[MaxSegFrames].energy
    /\ analysis.lyrics # <<>>
    /\ LET c == Prepare(analysis.frames, analysis.lyrics)
       IN  \E k \in 0..(c.m - 1) :
              /\ WindowTime(c, k) > 0
              /\ Classify(c, k) \notin {"intro", "bridge"}
    /\ sections_enhanced.sections =
           <<SectionInfo(0, 150, "intro", sections_enhanced.sections[1].energy,
                         sections_enhanced.sections[1].emotion)>>

\* the band of the energy e among the thresholds: 0 below low, 1 between
\* low and high, 2 above high, 3 above 1.2 * high
EnergyBand(c, e) ==
    LET w == [sum |-> SmoothKernel * e, cnt |-> 1]
    IN  IF BelowLow(c, w) THEN 0
        ELSE IF AboveHighTimes12(c, w) THEN 3
        ELSE IF AboveHigh(c, w) THEN 2
        ELSE 1

\* the time b is within 2.0 s of two neighbouring samples between which the
\* energy passes a threshold
NearCrossing(frames, c, b) ==
    \E k \in 1..(Len(frames) - 1) :
        /\ EnergyBand(c, frames[k].energy) # EnergyBand(c, frames[k + 1].energy)
        /\ Abs(b - frames[k].time) <= MinSectionLength
        /\ Abs(b - frames[k + 1].time) <= MinSectionLength

\* C17: for the ramp track (10 s, a sample every 0.1 s, energy 0 to 1 to 0
\* with the peak at t = 5) and no lyrics, the window at t = 5 lies above the
\* high threshold and is labelled drop or chorus, the windows at t = 0 and
\* t = 9 lie below the low threshold and are labelled intro, verse or bridge,
\* and every section boundary is within 2.0 s of a threshold crossing of the
\* ramp.
C17_RampScenario ==
    (pc = "done" /\ analysis.frames = Ramp /\ analysis.lyrics = <<>>) =>
        LET c == Prepare(Ramp, <<>>)
            ss == sections_enhanced.sections
            At(tq) == tq \div RampStep
        IN  /\ At(500) % c.window_size = 0 /\ At(900) % c.window_size = 0
            /\ AboveHigh(c, WindowEnergy(c, At(500)))
            /\ Classify(c, At(500)) \in {"drop", "chorus"}
            /\ \A tq \in {0, 900} :
                   /\ BelowLow(c, WindowEnergy(c, At(tq)))
                   /\ Classify(c, At(tq)) \in {"intro", "verse", "bridge"}
            /\ \A j \in 1..(Len(ss) - 1) : NearCrossing(Ramp, c, ss[j].end)

C17_Witness ==
    /\ pc = "done"
    /\ analysis.frames = Ramp
    /\ analysis.lyrics = <<>>
    /\ Len(sections_enhanced.sections) = 4
    /\ sections_enhanced.sections[1].type = "intro"
    /\ sections_enhanced.sections[3].type = "drop"
    /\ sections_enhanced.sections[3].start = 500

\* C19: in the window loop a boundary is emitted at a window start time t if
\* and only if the window's label differs from the running label and
\* t - section_start >= 2.0; and every section but the last is at least
\* 2.0 s long.
C19_BoundaryIffElapsed ==
    (pc = "done" /\ analysis.frames # <<>>) =>
        LET c == Prepare(analysis.frames, analysis.lyrics)
            tr == WindowTrace(c, 0, LoopStart)
            ss == sections_enhanced.sections
        IN  /\ \A k \in 1..Len(tr) :
                   LET st == tr[k].st
                       emitted == Len(WindowStep(c, tr[k].i, st).sections) =
                                      Len(st.sections) + 1
                   IN  emitted <=>
                           /\ Classify(c, tr[k].i) # st.current_section
                           /\ WindowTime(c, tr[k].i) - st.section_start >= MinSectionLength
            /\ \A j \in 1..(Len(ss) - 1) : ss[j].end - ss[j].start >= MinSectionLength

\* C28: in the list returned by detect_sections_enhanced any two consecutive
\* sections have different types; in the window loop a section is closed
\* only at a window whose label differs from the running label.
C28_NeighboursDiffer ==
    (pc = "done" /\ analysis.frames # <<>>) =>
        LET c == Prepare(analysis.frames, analysis.lyrics)
            tr == WindowTrace(c, 0, LoopStart)
            ss == sections_enhanced.sections
        IN  /\ \A j \in 1..(Len(ss) - 1) : ss[j].type # ss[j + 1].type
            /\ \A k \in 1..Len(tr) :
                   WindowStep(c, tr[k].i, tr[k].st) # tr[k].st =>
                       Classify(c, tr[k].i) # tr[k].st.current_section

\* a label that comes back: three sections, the first and third of one type,
\* and a window that kept the running label although 2.0 s had passed
C28_Witness ==
    /\ pc = "done"
    /\ analysis.frames # <<>>
    /\ analysis.lyrics # <<>>
    /\ LET c == Prepare(analysis.frames, analysis.lyrics)
           tr == WindowTrace(c, 0, LoopStart)
           ss == sections_enhanced.sections
       IN  /\ Len(ss) >= 3
           /\ ss[1].type = ss[3].type
           /\ ss[1].type # ss[2].type
           /\ \E k \in 1..Len(tr) :
                  /\ Elapsed(tr[k].st, WindowTime(c, tr[k].i))
                  /\ Classify(c, tr[k].i) = tr[k].st.current_section

\* the windows of the loop that start at time tq
WindowsAt(c, tq) ==
    {i \in 0..(c.m - 1) : i % c.window_size = 0 /\ WindowTime(c, i) = tq}

\* C29: the first section returned for a non-empty timeline has type intro,
\* whatever the energy and the lyric density of the opening windows are;
\* every later section has the label of a window that starts at the
\* section's start time, which for strictly increasing sample times is the
\* only window starting there.
C29_FirstIntroLaterClassified ==
    (pc = "done" /\ analysis.frames # <<>>) =>
        LET c == Prepare(analysis.frames, analysis.lyrics)
            ss == sections_enhanced.sections
        IN  /\ ss # <<>>
            /\ ss[1].type = "intro"
            /\ \A j \in 2..Len(ss) :
                   /\ \E i \in WindowsAt(c, ss[j].start) : Classify(c, i) = ss[j].type
                   /\ StrictlyIncreasing(analysis.frames) =>
                          \A i \in WindowsAt(c, ss[j].start) : Classify(c, i) = ss[j].type

\* the opening window is loud and sung, the first section is intro all the
\* same, and a later section carries its opening window's label
C29_Witness ==
    /\ pc = "done"
    /\ analysis.frames # <<>>
    /\ StrictlyIncreasing(analysis.frames)
    /\ LET c == Prepare(analysis.frames, analysis.lyrics)
           ss == sections_enhanced.sections
       IN  /\ Classify(c, 0) \in {"drop", "chorus", "verse"}
           /\ Len(ss) >= 2
           /\ ss[1].type = "intro"
           /\ ss[2].type # Classify(c, 0)
           /\ \A i \in WindowsAt(c, ss[2].start) : Classify(c, i) = ss[2].type

\* C26: detect_sections, which analyze_audio always runs, uses a window step
\* of at least 1 for every track duration greater than 0 and returns a
\* section list without raising, also for tracks shorter than 20 seconds.
C26_BasicSegmenterRuns ==
    (pc = "done" /\ analysis.duration > 0) =>
        /\ BasicWindowSize(analysis.duration) >= 1
        /\ ~sections_basic.raised
        /\ sections_basic.sections # <<>>

\* C20: every section returned for a non-empty sorted timeline has a defined
\* energy: the slice of smoothed energies averaged for it is never empty.
C20_SectionEnergyDefined ==
    (pc = "done" /\ analysis.frames # <<>>) =>
        \A i \in 1..Len(sections_enhanced.sections) :
            sections_enhanced.sections[i].energy.den # 0

====
